---- MODULE Spec2Model ----
(***************************************************************************)
(* The event feed screen of app/(tabs)/index.tsx: HomeScreen's three       *)
(* useState cells, the mount effect that runs fetchData once, the          *)
(* classification of a failed GET, the per-row transform renderEventCard   *)
(* and the view the component function returns.                            *)
(***************************************************************************)
EXTENDS Integers, Sequences, FiniteSets, TLC

-----------------------------------------------------------------------------
(* JavaScript values, tagged by type.  An object is an ordered list of     *)
(* <<key, value>> properties, so that a key can be absent, or present      *)
(* with an empty value.                                                    *)

Undefined == [type |-> "undefined"]
Null == [type |-> "null"]
Str(s) == [type |-> "string", val |-> s]
Num(n) == [type |-> "number", num |-> n]
Obj(props) == [type |-> "object", props |-> props]
Arr(elems) == [type |-> "array", elems |-> elems]

\* ToBoolean: what `if (v)`, `v ? a : b`, `!v` and `v || w` test.
Truthy(v) ==
    CASE v.type = "undefined" -> FALSE
      [] v.type = "null" -> FALSE
      [] v.type = "string" -> v.val # ""
      [] v.type = "number" -> v.num # 0
      [] OTHER -> TRUE

\* a || b
Or(a, b) == IF Truthy(a) THEN a ELSE b

HasKey(v, k) == v.type = "object" /\ \E i \in 1..Len(v.props) : v.props[i][1] = k

\* v[k] for a value known to be an object or a primitive: a missing key,
\* or a property of a string or a number, reads as undefined.
Get(v, k) ==
    IF HasKey(v, k)
    THEN v.props[CHOOSE i \in 1..Len(v.props) : v.props[i][1] = k][2]
    ELSE Undefined

\* v?.[k]: undefined when v is undefined or null, v[k] otherwise.
OptGet(v, k) == IF v.type \in {"undefined", "null"} THEN Undefined ELSE Get(v, k)

Contains(s, sub) ==
    \E i \in 1..(Len(s) - Len(sub) + 1) : SubSeq(s, i, i + Len(sub) - 1) = sub

\* JSON.stringify on the values modelled here (strings without characters
\* that need escaping); undefined serializes to undefined, not to a string.
RECURSIVE JSONStringify(_)
RECURSIVE JSONJoin(_, _)
JSONJoin(parts, i) ==
    IF i > Len(parts) THEN ""
    ELSE (IF i > 1 THEN "," ELSE "") \o parts[i] \o JSONJoin(parts, i + 1)

JSONStringify(v) ==
    CASE v.type = "undefined" -> Undefined
      [] v.type = "null" -> Str("null")
      [] v.type = "string" -> Str("\"" \o v.val \o "\"")
      [] v.type = "number" -> Str(ToString(v.num))
      [] v.type = "array" ->
            Str("[" \o JSONJoin([i \in 1..Len(v.elems) |->
                    IF JSONStringify(v.elems[i]).type = "undefined" THEN "null"
                    ELSE JSONStringify(v.elems[i]).val], 1) \o "]")
      [] v.type = "object" ->
            LET kept == SelectSeq(v.props, LAMBDA p : JSONStringify(p[2]).type # "undefined")
            IN  Str("{" \o JSONJoin([i \in 1..Len(kept) |->
                    "\"" \o kept[i][1] \o "\":" \o JSONStringify(kept[i][2]).val], 1) \o "}")

\* `${v}` inside a template literal.
TemplateStr(v) ==
    CASE v.type = "undefined" -> "undefined"
      [] v.type = "null" -> "null"
      [] v.type = "string" -> v.val
      [] v.type = "number" -> ToString(v.num)
      [] OTHER -> "[object Object]"

-----------------------------------------------------------------------------
(* new Date(string), isNaN(date.getTime()) and the two toLocale...String   *)
(* calls of renderEventCard.                                               *)

NaN == [type |-> "NaN"]

Digits == <<"0", "1", "2", "3", "4", "5", "6", "7", "8", "9">>

IsDigit(c) == \E d \in 1..10 : Digits[d] = c

DigitVal(c) == (CHOOSE d \in 1..10 : Digits[d] = c) - 1

AllDigits(s) == \A i \in 1..Len(s) : IsDigit(SubSeq(s, i, i))

RECURSIVE ParseInt(_)
ParseInt(s) ==
    IF Len(s) = 0 THEN 0
    ELSE 10 * ParseInt(SubSeq(s, 1, Len(s) - 1)) + DigitVal(SubSeq(s, Len(s), Len(s)))

IsLeap(y) == (y % 4 = 0 /\ y % 100 # 0) \/ y % 400 = 0

DaysInMonth(y, m) ==
    IF m = 2 THEN (IF IsLeap(y) THEN 29 ELSE 28)
    ELSE IF m \in {4, 6, 9, 11} THEN 30 ELSE 31

\* Days from 1970-01-01 to the civil date y-m-d (proleptic Gregorian).
DaysFromCivil(y, m, d) ==
    LET yy == IF m <= 2 THEN y - 1 ELSE y
        era == yy \div 400
        yoe == yy - era * 400
        mp == IF m > 2 THEN m - 3 ELSE m + 9
        doy == (153 * mp + 2) \div 5 + d - 1
        doe == yoe * 365 + yoe \div 4 - yoe \div 100 + doy
    IN  era * 146097 + doe - 719468

\* The civil date of a day number: the inverse of DaysFromCivil.
CivilFromDays(z) ==
    LET zz == z + 719468
        era == zz \div 146097
        doe == zz - era * 146097
        yoe == (doe - doe \div 1460 + doe \div 36524 - doe \div 146096) \div 365
        doy == doe - (365 * yoe + yoe \div 4 - yoe \div 100)
        mp == (5 * doy + 2) \div 153
        d == doy - (153 * mp + 2) \div 5 + 1
        m == IF mp < 10 THEN mp + 3 ELSE mp - 9
        y == yoe + era * 400 + (IF m <= 2 THEN 1 ELSE 0)
    IN  [year |-> y, month |-> m, day |-> d]

\* new Date(s).getTime() in minutes since the epoch, for the ISO-8601 UTC
\* form YYYY-MM-DDTHH:mm:ssZ the table API sends; NaN for any string that
\* is not of that form or has a field out of range.
DateGetTime(s) ==
    IF /\ Len(s) = 20
       /\ AllDigits(SubSeq(s, 1, 4)) /\ SubSeq(s, 5, 5) = "-"
       /\ AllDigits(SubSeq(s, 6, 7)) /\ SubSeq(s, 8, 8) = "-"
       /\ AllDigits(SubSeq(s, 9, 10)) /\ SubSeq(s, 11, 11) = "T"
       /\ AllDigits(SubSeq(s, 12, 13)) /\ SubSeq(s, 14, 14) = ":"
       /\ AllDigits(SubSeq(s, 15, 16)) /\ SubSeq(s, 17, 17) = ":"
       /\ AllDigits(SubSeq(s, 18, 19)) /\ SubSeq(s, 20, 20) = "Z"
    THEN LET y == ParseInt(SubSeq(s, 1, 4))
             m == ParseInt(SubSeq(s, 6, 7))
             d == ParseInt(SubSeq(s, 9, 10))
             hh == ParseInt(SubSeq(s, 12, 13))
             mi == ParseInt(SubSeq(s, 15, 16))
             ss == ParseInt(SubSeq(s, 18, 19))
         IN  IF /\ m \in 1..12 /\ d >= 1 /\ d <= DaysInMonth(y, m)
                /\ hh <= 23 /\ mi <= 59 /\ ss <= 59
             THEN Num(DaysFromCivil(y, m, d) * 1440 + hh * 60 + mi)
             ELSE NaN
    ELSE NaN

MonthNames ==
    <<"January", "February", "March", "April", "May", "June", "July",
      "August", "September", "October", "November", "December">>

\* The wall clock of instant t (minutes since the epoch) in a zone tz
\* minutes east of UTC.
LocalFields(t, tz) ==
    LET local == t + tz
        civil == CivilFromDays(local \div 1440)
        mins == local % 1440
    IN  [year |-> civil.year, month |-> civil.month, day |-> civil.day,
         hour |-> mins \div 60, minute |-> mins % 60]

\* toLocaleDateString(undefined, {year: 'numeric', month: 'long', day: 'numeric'})
\* in an en-US runtime.
toLocaleDateString(t, tz) ==
    LET f == LocalFields(t, tz)
    IN  MonthNames[f.month] \o " " \o ToString(f.day) \o ", " \o ToString(f.year)

\* toLocaleTimeString(undefined, {hour: 'numeric', minute: '2-digit', hour12: true})
\* in an en-US runtime.
toLocaleTimeString(t, tz) ==
    LET f == LocalFields(t, tz)
        h12 == IF f.hour % 12 = 0 THEN 12 ELSE f.hour % 12
    IN  ToString(h12) \o ":" \o (IF f.minute < 10 THEN "0" ELSE "") \o ToString(f.minute)
            \o " " \o (IF f.hour < 12 THEN "AM" ELSE "PM")

\* Lines 69-89: the two formatted strings for the resolved start value.
FormatStartNoNaNCheck(eventStartDateTimeString, tz) ==
    IF Truthy(eventStartDateTimeString)
    THEN LET t == DateGetTime(TemplateStr(eventStartDateTimeString))
         IN  IF t = NaN
             THEN [formattedDate |-> "Invalid Date", formattedTime |-> "Invalid Date"]
             ELSE [formattedDate |-> toLocaleDateString(t.num, tz),
                   formattedTime |-> toLocaleTimeString(t.num, tz)]
    ELSE [formattedDate |-> "Date not available", formattedTime |-> "Time not available"]

FormatStart(eventStartDateTimeString, tz) ==
    IF Truthy(eventStartDateTimeString)
    THEN LET t == DateGetTime(TemplateStr(eventStartDateTimeString))
         IN  IF t = NaN
             THEN [formattedDate |-> "Invalid Date", formattedTime |-> "Invalid Time"]
             ELSE [formattedDate |-> toLocaleDateString(t.num, tz),
                   formattedTime |-> toLocaleTimeString(t.num, tz)]
    ELSE [formattedDate |-> "Date not available", formattedTime |-> "Time not available"]

-----------------------------------------------------------------------------
(* Bounds of the model.                                                    *)

\* Longest items array of a response.
MaxItems == 2

\* Re-renders requested from outside the component (a parent re-rendering,
\* a theme change), which change none of its state.
MaxRerenders == 1

-----------------------------------------------------------------------------
(* The environment: the token of process.env, the zone of the runtime,     *)
(* what the table API can answer and how axios.get can reject.             *)

ApiTokens == {Undefined, Str(""), Str("secret-token")}

\* Minutes east of UTC of the ambient time zone.
TimeZones == {0, -300}

\* Math.random().toString()
RandomKeys == {"0.25", "0.75"}

Row(id, vals) == Obj(<< <<"id", Str(id)>>, <<"values", Obj(vals)>> >>)

SampleRows ==
    { Row("i-1", << <<"Start", Str("2025-03-01T18:30:00Z")>> >>),
      Row("i-2", << <<"c-xM1UXlWtET", Str("2024-12-31T23:30:00Z")>>,
                    <<"c-oQ9f2MSLrG", Str("https://c.example/join")>> >>),
      Row("i-3", << <<"Start", Str("not-a-date")>>,
                    <<"c-xM1UXlWtET", Str("2024-12-31T23:30:00Z")>> >>),
      Row("i-4", << <<"Start", Str("")>>,
                    <<"c-xM1UXlWtET", Str("2024-12-31T23:30:00Z")>> >>),
      Row("i-5", << <<"c-xM1UXlWtET", Str("")>>,
                    <<"Sign Up Link", Str("")>>, <<"c-oQ9f2MSLrG", Str("")>> >>),
      Row("i-6", << <<"Description", Str("")>>, <<"c-CuhtPto9h7", Str("B")>>,
                    <<"GraphicURL", Str("")>>,
                    <<"c-65xmsGtRJz", Str("https://c.example/g.png")>> >>),
      Row("i-7", << <<"Sign Up Link", Str("https://h.example/join")>>,
                    <<"GraphicURL", Str("https://h.example/g.png")>> >>),
      Row("i-8", << <<"Start", Str("2024-03-01T03:05:00Z")>>,
                    <<"Description", Str("Canvass")>>,
                    <<"Sign Up Link", Str("https://h.example/canvass")>>,
                    <<"c-oQ9f2MSLrG", Str("https://c.example/canvass")>>,
                    <<"GraphicURL", Str("https://h.example/canvass.png")>> >>),
      Obj(<< <<"href", Str("https://coda.io/rows/h-9")>>,
             <<"values", Obj(<< <<"Description", Str("A")>>,
                                <<"c-CuhtPto9h7", Str("B")>> >>)>> >>),
      Obj(<< <<"values", Obj(<< <<"Description", Str("A")>> >>)>> >>),
      Obj(<< <<"id", Str("i-11")>> >>) }

RECURSIVE SeqsUpTo(_, _)
SeqsUpTo(S, n) ==
    IF n = 0 THEN {<< >>}
    ELSE LET shorter == SeqsUpTo(S, n - 1)
         IN  shorter \cup {Append(q, x) : q \in shorter, x \in S}

\* response.data of a 2xx answer: the items array, a body without items,
\* or an empty body.
ResponseBodies ==
    {Obj(<< <<"items", Arr(items)>> >>) : items \in SeqsUpTo(SampleRows, MaxItems)}
        \cup {Obj(<< >>), Str("")}

AxiosError(isCancel, code, message, request, response) ==
    [isCancel |-> isCancel, code |-> code, message |-> message,
     request |-> request, response |-> response]

HttpStatuses == {404, 500}

ErrorBodies == {Obj(<< <<"msg", Str("fail")>> >>), Str("Not Found"), Undefined}

\* What axios.get rejects with: a cancellation, its own timeout, a request
\* that got no answer, a non-2xx answer, a failure before the request.
Rejections ==
    { AxiosError(TRUE, "ERR_CANCELED", "canceled", Undefined, Undefined),
      AxiosError(FALSE, "ECONNABORTED", "timeout of 30000ms exceeded", Obj(<< >>), Undefined),
      AxiosError(FALSE, "ERR_NETWORK", "Network Error", Obj(<< >>), Undefined),
      AxiosError(FALSE, "ERR_INVALID_URL", "Invalid URL", Undefined, Undefined) }
    \cup { AxiosError(FALSE, "ERR_BAD_RESPONSE",
                      "Request failed with status code " \o ToString(st), Obj(<< >>),
                      Obj(<< <<"status", Num(st)>>, <<"data", body>> >>))
           : st \in HttpStatuses, body \in ErrorBodies }

-----------------------------------------------------------------------------
(* fetchData, lines 17-57.                                                 *)

requestTimeout == 30000

\* The const bindings of the try block (lines 22-37) and the names the
\* catch block can see: its parameter and what fetchData closes over.
TryBlockScope == {"apiUrl", "apiToken", "requestTimeout", "requestHeaders", "response"}

CatchBlockScope == {"e", "axios", "setData", "setLoading", "setError", "process"}

TokenMessage ==
    "API Token is not configured. Please set EXPO_PUBLIC_CODA_API_TOKEN in your .env file."

\* if (!apiToken), line 26
TokenMissingOnlyUndefined(apiToken) == apiToken = Undefined

TokenMissing(apiToken) == ~Truthy(apiToken)

\* The catch block, lines 44-53: the message handed to setError, or the
\* exception the block itself raises.  Line 46 reads requestTimeout, a
\* const of the try block that is not in scope in the catch block.
ClassifyErrorRequestFirst(e) ==
    IF e.isCancel
    THEN IF "requestTimeout" \in CatchBlockScope
         THEN [threw |-> FALSE,
               message |-> "Request to Coda Table API timed out after "
                            \o ToString(requestTimeout \div 1000) \o " seconds (axios)."]
         ELSE [threw |-> TRUE, message |-> "ReferenceError: requestTimeout is not defined"]
    ELSE IF Truthy(e.request)
    THEN [threw |-> FALSE, message |-> "No response received from Coda Table API (axios)."]
    ELSE IF Truthy(e.response)
    THEN [threw |-> FALSE,
          message |-> "Server error! Status: " \o TemplateStr(Get(e.response, "status"))
                       \o ". Message: " \o TemplateStr(JSONStringify(Get(e.response, "data")))]
    ELSE [threw |-> FALSE, message |-> "Error: " \o e.message]

ClassifyError(e) ==
    IF e.isCancel
    THEN IF "requestTimeout" \in CatchBlockScope
         THEN [threw |-> FALSE,
               message |-> "Request to Coda Table API timed out after "
                            \o ToString(requestTimeout \div 1000) \o " seconds (axios)."]
         ELSE [threw |-> TRUE, message |-> "ReferenceError: requestTimeout is not defined"]
    ELSE IF Truthy(e.response)
    THEN [threw |-> FALSE,
          message |-> "Server error! Status: " \o TemplateStr(Get(e.response, "status"))
                       \o ". Message: " \o TemplateStr(JSONStringify(Get(e.response, "data")))]
    ELSE IF Truthy(e.request)
    THEN [threw |-> FALSE, message |-> "No response received from Coda Table API (axios)."]
    ELSE [threw |-> FALSE, message |-> "Error: " \o e.message]

\* The value of loading after the finally block, line 55, given its value
\* before and whether the try block completed without an exception.
LoadingAfterTryOnly(before, completed) == IF completed THEN FALSE ELSE before

LoadingAfterFinally(before, completed) == FALSE

\* useEffect(..., []), line 60: the effect runs after the first render and,
\* its dependency list being empty, after no other.
EffectRunsEveryRender(firstRender) == TRUE

EffectRuns(firstRender) == firstRender

-----------------------------------------------------------------------------
(* renderEventCard, lines 63-133, and the component's return, 135-176.     *)

\* item.values?.[humanKey] || item.values?.[codeKey], lines 64-67
ResolveFieldCodeFirst(item, humanKey, codeKey) ==
    Or(OptGet(Get(item, "values"), codeKey), OptGet(Get(item, "values"), humanKey))

ResolveField(item, humanKey, codeKey) ==
    Or(OptGet(Get(item, "values"), humanKey), OptGet(Get(item, "values"), codeKey))

\* Lines 123-129: the Pressable wired to handleSignUp, or the placeholder.
SignUpElementAlwaysButton(signUpLink) ==
    [element |-> "Pressable", label |-> "Sign Up"]

SignUpElement(signUpLink) ==
    IF Truthy(signUpLink)
    THEN [element |-> "Pressable", label |-> "Sign Up"]
    ELSE [element |-> "Text", label |-> "(No sign-up link provided)"]

renderEventCard(item, tz) ==
    LET eventStartDateTimeString == ResolveField(item, "Start", "c-xM1UXlWtET")
        eventDescription == ResolveField(item, "Description", "c-CuhtPto9h7")
        signUpLink == ResolveField(item, "Sign Up Link", "c-oQ9f2MSLrG")
        graphicUrl == ResolveField(item, "GraphicURL", "c-65xmsGtRJz")
        formatted == FormatStart(eventStartDateTimeString, tz)
    IN  [eventStartDateTimeString |-> eventStartDateTimeString,
         eventDescription |-> eventDescription,
         signUpLink |-> signUpLink,
         graphicUrl |-> graphicUrl,
         formattedDate |-> formatted.formattedDate,
         formattedTime |-> formatted.formattedTime,
         image |-> IF Truthy(graphicUrl) THEN graphicUrl ELSE Null,
         dateLine |-> "Date: " \o formatted.formattedDate,
         timeLine |-> "Time: " \o formatted.formattedTime,
         description |-> IF Truthy(eventDescription) THEN eventDescription ELSE Null,
         signUp |-> SignUpElement(signUpLink)]

\* (item) => item.id || item.href || Math.random().toString(), line 169;
\* random is called only for an item with neither id nor href.
NeedsRandomKey(item) == ~Truthy(Or(Get(item, "id"), Get(item, "href")))

keyExtractor(item, rnd, i) ==
    IF NeedsRandomKey(item) THEN Str(rnd[i]) ELSE Or(Get(item, "id"), Get(item, "href"))

\* FlatList: one rendered row per element of data, in the order of data.
FlatList(items, tz, rnd) ==
    [i \in 1..Len(items) |->
        [key |-> keyExtractor(items[i], rnd, i), card |-> renderEventCard(items[i], tz)]]

\* v.length of an array or a string.
Length(v) ==
    CASE v.type = "array" -> Num(Len(v.elems))
      [] v.type = "string" -> Num(Len(v.val))
      [] OTHER -> Undefined

Screen(kind, text, rows) == [screen |-> kind, text |-> text, rows |-> rows]

NothingRendered == Screen("none", "", << >>)

\* data && data.items && data.items.length > 0, line 165
HasItems(data) ==
    /\ Truthy(data)
    /\ Truthy(Get(data, "items"))
    /\ Length(Get(data, "items")).type = "number"
    /\ Length(Get(data, "items")).num > 0

\* Lines 159-176: the list, or the empty message.
LoadedScreen(data, tz, rnd) ==
    IF HasItems(data)
    THEN Screen("list", "", FlatList(Get(data, "items").elems, tz, rnd))
    ELSE Screen("empty", "No events found.", << >>)

\* The calls of Math.random one render of the list makes: one per item
\* that needs a random key.
RandomDraws(data) ==
    IF HasItems(data) /\ Get(data, "items").type = "array"
    THEN [{i \in 1..Len(Get(data, "items").elems) :
              NeedsRandomKey(Get(data, "items").elems[i])} -> RandomKeys]
    ELSE {<< >>}

\* What HomeScreen returns for the current state, lines 135-176.
HomeScreenNoLoadingCheck(data, loading, error, tz, rnd) ==
    IF Truthy(error)
    THEN Screen("error", "Error: " \o TemplateStr(error), << >>)
    ELSE LoadedScreen(data, tz, rnd)

HomeScreen(data, loading, error, tz, rnd) ==
    IF loading
    THEN Screen("loading", "Loading event data from Coda...", << >>)
    ELSE IF Truthy(error)
    THEN Screen("error", "Error: " \o TemplateStr(error), << >>)
    ELSE LoadedScreen(data, tz, rnd)

-----------------------------------------------------------------------------
(* One mounted instance of HomeScreen.                                     *)

VARIABLES
    apiToken,       \* process.env.EXPO_PUBLIC_CODA_API_TOKEN
    timeZone,       \* the ambient time zone of the runtime
    data,           \* useState, line 12
    loading,        \* useState, line 13
    error,          \* useState, line 14
    pc,             \* where fetchData is
    effectPending,  \* the effect of line 16 is scheduled to run
    dirty,          \* a state update awaits its re-render
    view,           \* what the last render returned
    httpGets,       \* axios.get calls made
    inFlight,       \* axios.get calls not yet settled
    outcome,        \* how the GET settled
    tryCompleted,   \* the try block ended without an exception
    thrown,         \* the exception leaving the catch block, if any
    unhandled,      \* the rejection of the promise fetchData() returned
    rerenders       \* re-renders requested from outside

vars ==
    <<apiToken, timeZone, data, loading, error, pc, effectPending, dirty, view,
      httpGets, inFlight, outcome, tryCompleted, thrown, unhandled, rerenders>>

env == <<apiToken, timeZone>>

Init ==
    /\ apiToken \in ApiTokens
    /\ timeZone \in TimeZones
    /\ data = Null
    /\ loading = TRUE
    /\ error = Null
    /\ pc = "init"
    /\ effectPending = FALSE
    /\ dirty = FALSE
    /\ view = NothingRendered
    /\ httpGets = 0
    /\ inFlight = 0
    /\ outcome = [settled |-> "none"]
    /\ tryCompleted = FALSE
    /\ thrown = Undefined
    /\ unhandled = Undefined
    /\ rerenders = 0

\* A render of the component: the view is recomputed from the state, and
\* the effect is scheduled if its dependencies say so.
Commit(firstRender) ==
    /\ \E rnd \in RandomDraws(data) :
          view' = HomeScreen(data, loading, error, timeZone, rnd)
    /\ dirty' = FALSE
    /\ effectPending' = (effectPending \/ EffectRuns(firstRender))

\* The first render, with the initial state of lines 12-14.
Mount ==
    /\ pc = "init"
    /\ pc' = "mounted"
    /\ Commit(TRUE)
    /\ UNCHANGED <<env, data, loading, error, httpGets, inFlight, outcome,
                   tryCompleted, thrown, unhandled, rerenders>>

\* fetchData() from its first line to the await of line 37, or to the
\* return of line 29 and the finally block behind it.
FetchDataStart ==
    /\ effectPending
    /\ effectPending' = FALSE
    /\ IF TokenMissing(apiToken)
       THEN /\ data' = Null
            /\ error' = Str(TokenMessage)
            /\ loading' = LoadingAfterFinally(FALSE, TRUE)
            /\ tryCompleted' = TRUE
            /\ pc' = "done"
            /\ UNCHANGED <<httpGets, inFlight>>
       ELSE /\ data' = Null
            /\ error' = Null
            /\ loading' = TRUE
            /\ httpGets' = httpGets + 1
            /\ inFlight' = inFlight + 1
            /\ tryCompleted' = FALSE
            /\ pc' = "awaiting"
    /\ dirty' = (dirty \/ <<data', loading', error'>> # <<data, loading, error>>)
    /\ UNCHANGED <<env, view, outcome, thrown, unhandled, rerenders>>

\* The GET answers 2xx: setData(response.data), line 42.
Resolve(body) ==
    /\ pc = "awaiting"
    /\ inFlight > 0
    /\ inFlight' = inFlight - 1
    /\ outcome' = [settled |-> "fulfilled", value |-> body]
    /\ data' = body
    /\ tryCompleted' = TRUE
    /\ pc' = "finally"
    /\ dirty' = (dirty \/ data' # data)
    /\ UNCHANGED <<env, loading, error, effectPending, view, httpGets, thrown,
                   unhandled, rerenders>>

\* The GET rejects: the catch block, lines 44-53.
Reject(e) ==
    /\ pc = "awaiting"
    /\ inFlight > 0
    /\ inFlight' = inFlight - 1
    /\ outcome' = [settled |-> "rejected", value |-> e]
    /\ LET c == ClassifyError(e)
       IN  IF c.threw
           THEN /\ thrown' = Str(c.message)
                /\ tryCompleted' = FALSE
                /\ UNCHANGED error
           ELSE /\ error' = Str(c.message)
                /\ tryCompleted' = FALSE
                /\ UNCHANGED thrown
    /\ pc' = "finally"
    /\ dirty' = (dirty \/ error' # error)
    /\ UNCHANGED <<env, data, loading, effectPending, view, httpGets, unhandled,
                   rerenders>>

\* The finally block, line 55; an exception of the catch block then leaves
\* fetchData, whose promise line 59 drops.
Finally ==
    /\ pc = "finally"
    /\ loading' = LoadingAfterFinally(loading, tryCompleted)
    /\ unhandled' = thrown
    /\ pc' = "done"
    /\ dirty' = (dirty \/ loading' # loading)
    /\ UNCHANGED <<env, data, error, effectPending, view, httpGets, inFlight,
                   outcome, tryCompleted, thrown, rerenders>>

\* The re-render a state update scheduled.
Render ==
    /\ pc # "init"
    /\ dirty
    /\ Commit(FALSE)
    /\ UNCHANGED <<env, data, loading, error, pc, httpGets, inFlight, outcome,
                   tryCompleted, thrown, unhandled, rerenders>>

\* A re-render the component did not ask for.
ParentRerender ==
    /\ pc # "init"
    /\ rerenders < MaxRerenders
    /\ rerenders' = rerenders + 1
    /\ Commit(FALSE)
    /\ UNCHANGED <<env, data, loading, error, pc, httpGets, inFlight, outcome,
                   tryCompleted, thrown, unhandled>>

Settle == (\E body \in ResponseBodies : Resolve(body)) \/ (\E e \in Rejections : Reject(e))

Next ==
    \/ Mount
    \/ FetchDataStart
    \/ \E body \in ResponseBodies : Resolve(body)
    \/ \E e \in Rejections : Reject(e)
    \/ Finally
    \/ Render
    \/ ParentRerender

Spec == Init /\ [][Next]_vars

\* The component is mounted, the event loop runs the effect and the
\* continuation of fetchData, and the GET settles.  Re-renders are not
\* required to happen.
FairSpec ==
    /\ Spec
    /\ WF_vars(Mount)
    /\ WF_vars(FetchDataStart)
    /\ WF_vars(Settle)
    /\ WF_vars(Finally)

TypeOK ==
    /\ loading \in BOOLEAN
    /\ error = Null \/ error.type = "string"
    /\ pc \in {"init", "mounted", "awaiting", "finally", "done"}
    /\ httpGets \in 0..1
    /\ inFlight \in 0..1
    /\ view.screen \in {"none", "loading", "error", "empty", "list"}

-----------------------------------------------------------------------------
(* Vocabulary of the properties.                                           *)

\* The items of the stored response, empty when there is no list to show.
Items == IF HasItems(data) /\ Get(data, "items").type = "array"
         THEN Get(data, "items").elems ELSE << >>

\* The positions at which the last render shows a card for an item.
Shown ==
    IF view.screen = "list"
    THEN {i \in 1..Len(view.rows) : i <= Len(Items)}
    ELSE {}

Failed == outcome.settled = "rejected"

ErrorHas(sub) == error # Null /\ Contains(error.val, sub)

Fields ==
    { <<"Start", "c-xM1UXlWtET", "eventStartDateTimeString">>,
      <<"Description", "c-CuhtPto9h7", "eventDescription">>,
      <<"Sign Up Link", "c-oQ9f2MSLrG", "signUpLink">>,
      <<"GraphicURL", "c-65xmsGtRJz", "graphicUrl">> }

Sentinels ==
    {"Date not available", "Time not available", "Invalid Date", "Invalid Time",
     "Error in date", "Error in time", ""}

-----------------------------------------------------------------------------
(* Properties.                                                             *)

\* C1: with the token undefined or empty no GET is ever issued, and once
\* fetchData is done loading is false, no data is stored and the error
\* message contains "API Token is not configured".
C1_MissingTokenIsAnError ==
    apiToken \in {Undefined, Str("")} =>
        /\ httpGets = 0
        /\ inFlight = 0
        /\ pc \notin {"awaiting", "finally"}
        /\ pc = "done" =>
              /\ ~loading
              /\ data = Null
              /\ ErrorHas("API Token is not configured")
              /\ ~dirty => /\ view.screen = "error"
                           /\ Contains(view.text, "API Token is not configured")

C1_Witness ==
    /\ apiToken = Str("")
    /\ pc = "done"
    /\ view.screen = "error"
    /\ httpGets = 0

\* C2: the error message and the response data are never both set; a
\* finished cycle has left Loading either to Error (message set, no data)
\* or to Loaded (the response body stored, no message), and never with
\* neither set after a failed request.
C2_ErrorOrLoaded ==
    /\ ~(error # Null /\ data # Null)
    /\ pc = "done" =>
          /\ ~loading
          /\ \/ error # Null /\ data = Null
             \/ /\ error = Null
                /\ outcome.settled = "fulfilled"
                /\ data = outcome.value
    /\ (pc = "done" /\ Failed) => error # Null

\* C3: a GET that failed by cancellation or by the client-side timeout ends
\* in the Error state with a message naming the timeout, 30 seconds.
C3_TimeoutNamesTheSeconds ==
    (/\ pc = "done"
     /\ Failed
     /\ outcome.value.isCancel \/ outcome.value.code = "ECONNABORTED")
        => /\ ~loading
           /\ ErrorHas(ToString(requestTimeout \div 1000) \o " seconds")

\* C4: a rejection that carries a response and is no cancellation sets an
\* error message containing the status code and the serialized body, never
\* the no-response or the generic message; status 500 with body
\* {"msg":"fail"} gives a message containing 500 and {"msg":"fail"}.
C4_ServerErrorMessage ==
    (/\ pc \in {"finally", "done"}
     /\ Failed
     /\ ~outcome.value.isCancel
     /\ outcome.value.response # Undefined)
        => LET status == Get(outcome.value.response, "status")
               body == Get(outcome.value.response, "data")
           IN  /\ ErrorHas(ToString(status.num))
               /\ ErrorHas(TemplateStr(JSONStringify(body)))
               /\ ~ErrorHas("No response received")
               /\ ~ErrorHas(outcome.value.message)
               /\ data = Null
               /\ pc = "done" => ~loading
               /\ (status = Num(500) /\ body = Obj(<< <<"msg", Str("fail")>> >>))
                     => ErrorHas("500") /\ ErrorHas("{\"msg\":\"fail\"}")

C4_Witness ==
    /\ pc = "done"
    /\ Failed
    /\ outcome.value.response # Undefined
    /\ Get(outcome.value.response, "status") = Num(500)
    /\ Get(outcome.value.response, "data") = Obj(<< <<"msg", Str("fail")>> >>)
    /\ view.screen = "error"

\* C5: one mounted instance issues at most one GET, and at most one is in
\* flight, whatever the outcome and however often it re-renders.
C5_AtMostOneGet ==
    /\ httpGets <= 1
    /\ inFlight <= 1

C5_Witness ==
    /\ httpGets = 1
    /\ pc = "done"
    /\ Failed
    /\ rerenders >= 1
    /\ ~dirty
    /\ ~effectPending

\* C6 as stated: every card resolves each of its four fields to the value
\* under the human-readable key when that key is present, to the value
\* under the code key when only that one is present, and to undefined when
\* both are absent.
C6_HumanKeyWhenPresent ==
    \A i \in Shown : \A f \in Fields :
        LET values == Get(Items[i], "values")
            resolved == view.rows[i].card[f[3]]
        IN  resolved = IF HasKey(values, f[1]) THEN Get(values, f[1])
                       ELSE IF HasKey(values, f[2]) THEN Get(values, f[2])
                       ELSE Undefined

\* C6 amended: every card resolves each of its four fields to the value
\* under the human-readable key when that value is present and not empty,
\* and otherwise to the value under the code key, undefined when that key
\* is absent; Description "A" with c-CuhtPto9h7 "B" resolves to "A".
C6_HumanKeyWhenNotEmpty ==
    \A i \in Shown : \A f \in Fields :
        LET values == Get(Items[i], "values")
            resolved == view.rows[i].card[f[3]]
        IN  /\ (HasKey(values, f[1]) /\ Get(values, f[1]) \notin {Str("")})
                  => resolved = Get(values, f[1])
            /\ (~HasKey(values, f[1]) \/ Get(values, f[1]) = Str(""))
                  => /\ HasKey(values, f[2]) => resolved = Get(values, f[2])
                     /\ ~HasKey(values, f[2]) => resolved = Undefined
            /\ (Get(values, "Description") = Str("A") /\ Get(values, "c-CuhtPto9h7") = Str("B"))
                  => view.rows[i].card.eventDescription = Str("A")

C6_Witness ==
    \E i \in Shown :
        /\ Get(Get(Items[i], "values"), "Description") = Str("A")
        /\ Get(Get(Items[i], "values"), "c-CuhtPto9h7") = Str("B")
        /\ view.rows[i].card.eventDescription = Str("A")
        /\ \E j \in Shown :
              /\ Get(Get(Items[j], "values"), "Description") = Str("")
              /\ view.rows[j].card.eventDescription = Str("B")

\* C7 as stated: the two formatted strings of a card are the "not
\* available" pair when the resolved start is absent, the "Invalid" pair
\* when it is present and does not parse, and two formatted values that
\* are no sentinel when it is present and parses.
C7_KindsByPresence ==
    \A i \in Shown :
        LET c == view.rows[i].card
            start == c.eventStartDateTimeString
        IN  /\ c.formattedDate # "" /\ c.formattedTime # ""
            /\ start = Undefined
                  => c.formattedDate = "Date not available"
                     /\ c.formattedTime = "Time not available"
            /\ (start # Undefined /\ DateGetTime(start.val) = NaN)
                  => c.formattedDate = "Invalid Date" /\ c.formattedTime = "Invalid Time"
            /\ (start # Undefined /\ DateGetTime(start.val) # NaN)
                  => c.formattedDate \notin Sentinels /\ c.formattedTime \notin Sentinels

\* C7 amended: the two formatted strings of a card are the "not available"
\* pair when the resolved start is absent or empty, the "Invalid" pair when
\* it is not empty and does not parse, and two formatted values that are no
\* sentinel when it is not empty and parses; "not-a-date" gives the
\* "Invalid" pair.
C7_KindsByEmptiness ==
    \A i \in Shown :
        LET c == view.rows[i].card
            start == c.eventStartDateTimeString
        IN  /\ c.formattedDate # "" /\ c.formattedTime # ""
            /\ start \in {Undefined, Str("")}
                  => c.formattedDate = "Date not available"
                     /\ c.formattedTime = "Time not available"
            /\ (start \notin {Undefined, Str("")} /\ DateGetTime(start.val) = NaN)
                  => c.formattedDate = "Invalid Date" /\ c.formattedTime = "Invalid Time"
            /\ (start \notin {Undefined, Str("")} /\ DateGetTime(start.val) # NaN)
                  => /\ c.formattedDate \notin Sentinels
                     /\ c.formattedTime \notin Sentinels
                     /\ \E m \in 1..12 : Contains(c.formattedDate, MonthNames[m])
                     /\ Contains(c.formattedTime, "AM") \/ Contains(c.formattedTime, "PM")
            /\ start = Str("not-a-date")
                  => c.formattedDate = "Invalid Date" /\ c.formattedTime = "Invalid Time"

C7_Witness ==
    /\ \E i \in Shown : /\ view.rows[i].card.eventStartDateTimeString = Str("not-a-date")
                        /\ view.rows[i].card.formattedTime = "Invalid Time"
    /\ \E i \in Shown : /\ view.rows[i].card.eventStartDateTimeString = Str("2025-03-01T18:30:00Z")
                        /\ view.rows[i].card.formattedDate = "March 1, 2025"

\* C8: a list is on screen only when loading is false, no error is set and
\* the stored response has at least one item, and then it has one row per
\* item, in the order of the items; every other screen has no rows; and a
\* rendered Loaded state without items shows "No events found.".
C8_ViewFollowsState ==
    /\ view.screen = "list" =>
          /\ ~loading
          /\ error = Null
          /\ HasItems(data)
          /\ Len(view.rows) = Len(Items)
          /\ \A i \in 1..Len(Items) :
                /\ view.rows[i].card = renderEventCard(Items[i], timeZone)
                /\ Get(Items[i], "id") # Undefined => view.rows[i].key = Get(Items[i], "id")
    /\ view.screen # "list" => view.rows = << >>
    /\ (pc # "init" /\ ~dirty) =>
          /\ loading => view.screen = "loading"
          /\ (~loading /\ error # Null) => view.screen = "error"
          /\ (~loading /\ error = Null /\ Len(Items) = 0) =>
                view.screen = "empty" /\ view.text = "No events found."
          /\ (~loading /\ error = Null /\ Len(Items) > 0) => view.screen = "list"

C8_Witness ==
    /\ view.screen = "list"
    /\ Len(view.rows) = 2
    /\ view.rows[1].key = Str("i-8")
    /\ view.rows[2].key = Str("i-1")

\* C9: a card shows the "Sign Up" button exactly when the item has a
\* non-empty sign-up link under either key, and the placeholder text
\* otherwise.
C9_ButtonIffLink ==
    \A i \in Shown :
        LET values == Get(Items[i], "values")
            linked == \/ Truthy(Get(values, "Sign Up Link"))
                      \/ Truthy(Get(values, "c-oQ9f2MSLrG"))
            shown == view.rows[i].card.signUp
        IN  /\ linked => shown = [element |-> "Pressable", label |-> "Sign Up"]
            /\ ~linked => shown = [element |-> "Text", label |-> "(No sign-up link provided)"]

C9_Witness ==
    /\ Cardinality(Shown) = 2
    /\ \A i \in Shown :
          /\ ~HasKey(Get(Items[i], "values"), "Sign Up Link")
          /\ ~HasKey(Get(Items[i], "values"), "c-oQ9f2MSLrG")
          /\ view.rows[i].card.signUp.element = "Text"

\* C10: every activation eventually has loading false for good, and
\* loading never goes from false back to true.
C10_LoadingEnds ==
    /\ <>[](~loading)
    /\ [][~loading => ~loading']_vars

C10_Witness ==
    /\ pc = "done"
    /\ ~loading
    /\ thrown # Undefined
    /\ unhandled = thrown

====
